---- MODULE Spec2Model ----
(***************************************************************************)
(* NERA chat service (src/main.py): the two POST handlers, the provider    *)
(* forwarder ChatService and the file-text extractor.                      *)
(*                                                                         *)
(* Text is modelled as a sequence of tokens (words, "." and "?"), so that  *)
(* lower(), split('.') and the substring test `in` are computed rather     *)
(* than assumed.  A provider reply is modelled by its transport outcome,   *)
(* its HTTP status class and the structure of its JSON body.               *)
(***************************************************************************)
EXTENDS Integers, Sequences, FiniteSets, TLC

VARIABLES
    api_key,        \* ChatService.api_key is set (read once at start-up)
    pc,             \* per request: position of its handler
    kind,           \* per request: "none", "chat" or "upload"
    messages,       \* per request: ChatRequest.messages
    files,          \* per request: filenames of the uploaded files, in order
    extracted,      \* per request: outcome of extract_text_from_file per file
    file_contents,  \* per request: the list built by process_message_with_files
    prompt,         \* per request: fragments of the prompt handed to the provider
    calls,          \* per request: outbound provider calls issued
    reply,          \* per request: the provider's reply to its call
    response,       \* per request: the HTTP response of the handler
    tmpfiles,       \* temporary files present on the file system
    xcall           \* a single extract_text_from_file call: input and outcome

vars == <<api_key, pc, kind, messages, files, extracted, file_contents, prompt,
          calls, reply, response, tmpfiles, xcall>>

reqvars == <<api_key, pc, kind, messages, files, extracted, file_contents,
             prompt, calls, reply, response, tmpfiles>>

(***************************************************************************)
(* Bounds                                                                  *)
(***************************************************************************)
MaxMsgs == 2
MaxFiles == 2

Reqs == {1}

(***************************************************************************)
(* Text                                                                    *)
(***************************************************************************)
\* str.lower() on one token
LowerTok(t) ==
    CASE t = "PDF"     -> "pdf"
      [] t = "Docx"    -> "docx"
      [] t = "TXT"     -> "txt"
      [] t = "Who"     -> "who"
      [] t = "CREATED" -> "created"
      [] t = "Built"   -> "built"
      [] OTHER         -> t

\* str.lower()
lower(s) == [i \in 1..Len(s) |-> LowerTok(s[i])]

\* the Python test `sub in s` on strings
Contains(s, sub) ==
    \E i \in 0..(Len(s) - Len(sub)) :
        \A j \in 1..Len(sub) : s[i + j] = sub[j]

\* file.filename.split('.')[-1].lower() if '.' in file.filename else ''
FileExtension(filename) ==
    IF \E i \in 1..Len(filename) : filename[i] = "."
    THEN LET last == CHOOSE i \in 1..Len(filename) :
                        /\ filename[i] = "."
                        /\ \A j \in (i + 1)..Len(filename) : filename[j] # "."
         IN  lower(SubSeq(filename, last + 1, Len(filename)))
    ELSE <<>>

(***************************************************************************)
(* extract_text_from_file                                                  *)
(***************************************************************************)
\* Uploaded file names
Filenames ==
    { <<"report", ".", "pdf">>,
      <<"report", ".", "PDF">>,
      <<"deed", ".", "Docx">>,
      <<"deed", ".", "doc">>,
      <<"prices", ".", "csv">>,
      <<"prices", ".", "xlsx">>,
      <<"prices", ".", "xls">>,
      <<"notes", ".", "TXT">>,
      <<"notes", ".", "v2", ".", "txt">>,
      <<"report", ".", "pdf", ".", "bak">>,
      <<"image", ".", "xyz">>,
      <<"README">>,
      <<"draft", ".">> }

\* The bytes of an upload: none, bytes its format's decoder accepts (valid
\* UTF-8 for a text file), or bytes the decoder rejects (not UTF-8).
Contents == {"empty", "valid", "corrupt"}

\* An UploadFile: its name, its bytes, and whether read() and seek() raise.
Files ==
    [filename : Filenames, content : Contents,
     readFails : BOOLEAN, seekFails : BOOLEAN]

\* The file system during one call: what NamedTemporaryFile and write do,
\* and whether os.unlink raises.
Envs == [tmp : {"ok", "create_fails", "write_fails"}, unlinkFails : BOOLEAN]

\* A returned string: which of the function's f-strings it is, the file name
\* it embeds and, for the unsupported-format text, the suffix it names.
Str(k, filename, arg) == [kind |-> k, filename |-> filename, arg |-> arg]

\* Outcome of a step of the call: "return" or "raise", the value, and what
\* became of the temporary file ("none", "deleted", "left").
Out(o, v, t) == [outcome |-> o, value |-> v, tmp |-> t]

\* lines 271-279
PdfBranch(file) ==
    IF file.content = "corrupt"
    THEN Out("return", Str("CouldNotExtractPDF", file.filename, <<>>), "none")
    ELSE Out("return", Str("PDFContent", file.filename, <<>>), "none")

\* lines 281-297: a failure to create or write the temporary file leaves the
\* `with` block by an exception (the file was opened with delete=False, so a
\* created file stays); otherwise the finally clause unlinks the file, and a
\* failing unlink is logged and swallowed.
DocxBranch(file, env) ==
    IF env.tmp # "ok"
    THEN Out("raise", Str("OSError", file.filename, <<>>),
             IF env.tmp = "write_fails" THEN "left" ELSE "none")
    ELSE Out("return",
             IF file.content = "corrupt"
             THEN Str("CouldNotExtractWord", file.filename, <<>>)
             ELSE Str("DocumentContent", file.filename, <<>>),
             IF env.unlinkFails THEN "left" ELSE "deleted")

\* lines 299-311
SheetBranch(file) ==
    IF file.content = "corrupt"
    THEN Out("return", Str("CouldNotExtractSheet", file.filename, <<>>), "none")
    ELSE Out("return", Str("DataFrom", file.filename, <<>>), "none")

\* lines 313-321: UTF-8, then Latin-1, which decodes every byte string
TxtBranch(file) ==
    Out("return", Str("TextContent", file.filename, <<>>), "none")

\* lines 270-329: the dispatch on the extension and the inner handler
Dispatch(file, env) ==
    LET file_extension == FileExtension(file.filename)
        branch ==
            IF file_extension = <<"pdf">> THEN PdfBranch(file)
            ELSE IF file_extension \in {<<"docx">>, <<"doc">>}
                 THEN DocxBranch(file, env)
            ELSE IF file_extension \in {<<"csv">>, <<"xlsx">>, <<"xls">>}
                 THEN SheetBranch(file)
            ELSE IF file_extension = <<"txt">> THEN TxtBranch(file)
            ELSE Out("return",
                     Str("Unsupported", file.filename, file_extension), "none")
    IN  IF branch.outcome = "raise"
        THEN Out("return", Str("ErrorProcessing", file.filename, <<>>),
                 branch.tmp)
        ELSE branch

\* lines 259-333: the body of the outer try and its handler
ExtractBody(file, env) ==
    IF file.readFails
    THEN Out("return", Str("FailedToRead", file.filename, <<>>), "none")
    ELSE IF file.content = "empty"
         THEN Out("return", Str("EmptyFile", file.filename, <<>>), "none")
         ELSE Dispatch(file, env)

\* lines 257-338: the whole call; an exception of `await file.seek(0)` in the
\* finally clause replaces the value being returned
extract_text_from_file(file, env) ==
    LET body == ExtractBody(file, env)
    IN  IF file.seekFails
        THEN Out("raise", Str("SeekError", file.filename, <<>>), body.tmp)
        ELSE body

(***************************************************************************)
(* Messages                                                                *)
(***************************************************************************)
Roles == {"user", "assistant", "system"}

MessageContents ==
    { <<"hello">>,
      <<"Who", "Built", "you", "?">>,
      <<"tell", "me", "who", "CREATED", "you">>,
      <<"who", "built", "it">>,
      <<>> }

Message == [role : Roles, content : MessageContents]

SeqUpTo(S, n) == UNION {[1..k -> S] : k \in 0..n}

MessageLists == SeqUpTo(Message, MaxMsgs)

\* File names used by upload requests
UploadNames ==
    { <<"report", ".", "PDF">>, <<"deed", ".", "Docx">>, <<"README">> }

FileLists == SeqUpTo(UploadNames, MaxFiles)

(***************************************************************************)
(* Provider replies                                                        *)
(***************************************************************************)
Choice == [message |-> [role |-> "assistant", content |-> "answer"]]

JsonBodies ==
    { [t |-> "invalid"],                 \* not JSON: response.json() raises
      [t |-> "null"],                    \* JSON null
      [t |-> "list"],                    \* a JSON array
      [t |-> "object",
       v |-> [choices |-> <<Choice>>, usage |-> [total_tokens |-> 42]]],
      [t |-> "object", v |-> [choices |-> <<Choice>>]],
      [t |-> "object",
       v |-> [choices |-> <<Choice>>, usage |-> [prompt_tokens |-> 7]]],
      [t |-> "object", v |-> [error |-> "overloaded"]],
      [t |-> "object", v |-> [choices |-> <<>>]],
      [t |-> "object", v |-> [choices |-> <<[index |-> 0]>>]],
      [t |-> "object",
       v |-> [choices |-> <<[message |-> [role |-> "assistant"]]>>]] }

\* transport: whether client.post returned at all (no timeout, no connection
\* error); http_ok: whether raise_for_status accepts the status
Replies ==
    { [transport |-> "error", http_ok |-> FALSE, body |-> [t |-> "invalid"]],
      [transport |-> "ok", http_ok |-> FALSE, body |-> [t |-> "invalid"]] }
    \cup [transport : {"ok"}, http_ok : {TRUE}, body : JsonBodies]

NoReply == [transport |-> "none", http_ok |-> FALSE, body |-> [t |-> "invalid"]]

(***************************************************************************)
(* Results, exceptions and responses                                       *)
(***************************************************************************)
Exc(type, code, detail) ==
    [type |-> type, status_code |-> code, detail |-> detail]

Returned(body, tokens) ==
    [outcome |-> "return", body |-> body, tokens |-> tokens,
     exc |-> Exc("none", 0, "none")]

Raised(e) ==
    [outcome |-> "raise", body |-> "none", tokens |-> 0, exc |-> e]

Response(status, body, detail, tokens) ==
    [status |-> status, body |-> body, detail |-> detail, tokens |-> tokens]

NoResponse == Response(0, "none", "none", 0)

(***************************************************************************)
(* ChatService.generate_response                                           *)
(***************************************************************************)
\* lines 149-152 on a reply: raise_for_status, json(), and the subscripts
\* result['choices'][0]['message']['content']
FirstChoiceContent(rep) ==
    IF rep.transport # "ok" THEN Raised(Exc("TransportError", 0, "provider"))
    ELSE IF ~rep.http_ok THEN Raised(Exc("HTTPStatusError", 0, "provider"))
    ELSE IF rep.body.t = "invalid"
         THEN Raised(Exc("JSONDecodeError", 0, "provider"))
    ELSE IF rep.body.t # "object"
         THEN Raised(Exc("TypeError", 0, "provider"))
    ELSE LET data == rep.body.v
         IN  IF "choices" \notin DOMAIN data
             THEN Raised(Exc("KeyError", 0, "provider"))
             ELSE IF Len(data.choices) = 0
                  THEN Raised(Exc("IndexError", 0, "provider"))
             ELSE IF "message" \notin DOMAIN data.choices[1]
                  THEN Raised(Exc("KeyError", 0, "provider"))
             ELSE IF "content" \notin DOMAIN data.choices[1].message
                  THEN Raised(Exc("KeyError", 0, "provider"))
             ELSE Returned("provider_content", 0)

\* lines 154-161: both handlers re-raise as ValueError with the cause's text
generate_response_except(res) ==
    IF res.outcome = "raise"
    THEN Raised(Exc("ValueError", 0, res.exc.detail))
    ELSE res

\* lines 65-67: the credential check, which the handlers above wrap too
CredentialCheck(key) ==
    IF ~key
    THEN generate_response_except(Raised(Exc("ValueError", 0, "config")))
    ELSE Returned("none", 0)

\* lines 149-161
generate_response_finish(rep) ==
    generate_response_except(FirstChoiceContent(rep))

(***************************************************************************)
(* chat_endpoint                                                           *)
(***************************************************************************)
\* lines 405-410: `except Exception` catches every exception raised in the
\* try block, the HTTPException of line 377 included, and answers 500
chat_endpoint_except(res) ==
    IF res.outcome = "raise"
    THEN Response(500, "error", res.exc.detail, 0)
    ELSE Response(200, res.body, "none", 0)

\* lines 383-387: the test on the last message of the list
IsCreatorQuestion(ms) ==
    LET last_message == ms[Len(ms)]
    IN  \/ Contains(lower(last_message.content), <<"who", "built", "you">>)
        \/ Contains(lower(last_message.content), <<"who", "created", "you">>)

\* lines 375-396, up to the provider call: the result that ends the request
\* at once, or "call" when the request goes on to client.post
chat_endpoint_begin(key, ms) ==
    IF ms = <<>>
    THEN Raised(Exc("HTTPException", 400, "validation"))
    ELSE IF IsCreatorQuestion(ms)
         THEN Returned("attribution", 0)
         ELSE IF CredentialCheck(key).outcome = "raise"
              THEN CredentialCheck(key)
              ELSE Returned("call", 0)

(***************************************************************************)
(* ChatService.process_message_with_files                                  *)
(***************************************************************************)
\* line 170 and line 173: the fragment for one file
Fragment(filename, res) ==
    IF res.outcome = "return"
    THEN [head |-> "File", filename |-> filename, text |-> res.value]
    ELSE [head |-> "ErrorProcessingFile", filename |-> filename,
          text |-> res.value]

LoopStepDropOnError(fc, filename, res) ==
    IF res.outcome = "return"
    THEN [file_contents |-> Append(fc, Fragment(filename, res)),
          raised |-> FALSE]
    ELSE [file_contents |-> fc, raised |-> FALSE]

LoopStepNoCatch(fc, filename, res) ==
    IF res.outcome = "return"
    THEN [file_contents |-> Append(fc, Fragment(filename, res)),
          raised |-> FALSE]
    ELSE [file_contents |-> fc, raised |-> TRUE]

\* lines 167-173: one iteration of the loop; the except clause appends the
\* error fragment, so no exception leaves the iteration
LoopStep(fc, filename, res) ==
    [file_contents |-> Append(fc, Fragment(filename, res)), raised |-> FALSE]

Separator == [head |-> "sep", filename |-> <<>>, text |-> Str("sep", <<>>, <<>>)]

\* line 178: "\n\n".join(file_contents)
RECURSIVE Join(_)
Join(fc) ==
    IF Len(fc) = 0 THEN <<>>
    ELSE IF Len(fc) = 1 THEN <<fc[1]>>
    ELSE <<fc[1], Separator>> \o Join(Tail(fc))

\* lines 229-251 on a reply
process_reply(rep) ==
    IF rep.transport # "ok"
    THEN Raised(Exc("HTTPException", 500, "provider"))
    ELSE IF ~rep.http_ok THEN Raised(Exc("HTTPException", 500, "provider"))
    ELSE IF rep.body.t = "invalid"
         THEN Raised(Exc("HTTPException", 500, "provider"))
    ELSE IF rep.body.t = "null"
         THEN Raised(Exc("HTTPException", 500, "provider"))
    ELSE IF rep.body.t = "list" THEN Returned("fallback", 0)
    ELSE LET data == rep.body.v
         IN  IF "choices" \in DOMAIN data /\ Len(data.choices) > 0
             THEN IF "message" \notin DOMAIN data.choices[1]
                  THEN Raised(Exc("HTTPException", 500, "provider"))
                  ELSE IF "content" \notin DOMAIN data.choices[1].message
                       THEN Raised(Exc("HTTPException", 500, "provider"))
                  ELSE Returned("provider_content",
                                IF "usage" \in DOMAIN data
                                   /\ "total_tokens" \in DOMAIN data.usage
                                THEN data.usage.total_tokens ELSE 0)
             ELSE Returned("fallback", 0)

(***************************************************************************)
(* upload_files                                                            *)
(***************************************************************************)
upload_files_except_all500(res) ==
    IF res.outcome = "raise"
    THEN Response(500, "error", res.exc.detail, 0)
    ELSE Response(200, res.body, "none", res.tokens)

\* lines 451-460: an HTTPException is re-raised as it is, any other
\* exception becomes a 500
upload_files_except(res) ==
    IF res.outcome = "raise"
    THEN IF res.exc.type = "HTTPException"
         THEN Response(res.exc.status_code, "error", res.exc.detail, 0)
         ELSE Response(500, "error", res.exc.detail, 0)
    ELSE Response(200, res.body, "none", res.tokens)

\* lines 444-449: whatever process_message_with_files raises is raised again
\* as an HTTPException with status 500
upload_files_proc_error(res) ==
    IF res.outcome = "raise"
    THEN Raised(Exc("HTTPException", 500, res.exc.detail))
    ELSE res

(***************************************************************************)
(* The requests                                                            *)
(***************************************************************************)
NoResult == Out("none", Str("none", <<>>, <<>>), "none")

XIdle ==
    [file |-> [filename |-> <<"README">>, content |-> "empty",
               readFails |-> FALSE, seekFails |-> FALSE],
     env |-> [tmp |-> "ok", unlinkFails |-> FALSE],
     state |-> "unused", result |-> NoResult]

InitRequests ==
    /\ api_key \in BOOLEAN
    /\ pc = [r \in Reqs |-> "idle"]
    /\ kind = [r \in Reqs |-> "none"]
    /\ messages = [r \in Reqs |-> <<>>]
    /\ files = [r \in Reqs |-> <<>>]
    /\ extracted = [r \in Reqs |-> <<>>]
    /\ file_contents = [r \in Reqs |-> <<>>]
    /\ prompt = [r \in Reqs |-> <<>>]
    /\ calls = [r \in Reqs |-> 0]
    /\ reply = [r \in Reqs |-> NoReply]
    /\ response = [r \in Reqs |-> NoResponse]
    /\ tmpfiles = {}

Init ==
    /\ InitRequests
    /\ xcall = XIdle

\* POST /api/chat arrives: chat_endpoint runs up to its first suspension, the
\* provider call, or to its end when it answers without one (lines 371-410,
\* 64-148)
ChatStart(r, ms) ==
    /\ pc[r] = "idle"
    /\ kind' = [kind EXCEPT ![r] = "chat"]
    /\ messages' = [messages EXCEPT ![r] = ms]
    /\ LET res == chat_endpoint_begin(api_key, ms)
       IN  IF res.outcome = "return" /\ res.body = "call"
           THEN /\ calls' = [calls EXCEPT ![r] = @ + 1]
                /\ pc' = [pc EXCEPT ![r] = "await"]
                /\ UNCHANGED response
           ELSE /\ response' = [response EXCEPT ![r] = chat_endpoint_except(res)]
                /\ pc' = [pc EXCEPT ![r] = "done"]
                /\ UNCHANGED calls
    /\ UNCHANGED <<api_key, files, extracted, file_contents, prompt, reply,
                   tmpfiles, xcall>>

ChatReplyRetry(r, rep) ==
    /\ pc[r] = "await"
    /\ kind[r] = "chat"
    /\ reply' = [reply EXCEPT ![r] = rep]
    /\ IF generate_response_finish(rep).outcome = "raise" /\ calls[r] < 2
       THEN /\ calls' = [calls EXCEPT ![r] = @ + 1]
            /\ UNCHANGED <<pc, response>>
       ELSE /\ response' = [response EXCEPT ![r] =
                   chat_endpoint_except(generate_response_finish(rep))]
            /\ pc' = [pc EXCEPT ![r] = "done"]
            /\ UNCHANGED calls
    /\ UNCHANGED <<api_key, kind, messages, files, extracted, file_contents,
                   prompt, tmpfiles, xcall>>

\* client.post of generate_response completes (lines 143-161, 396-410)
ChatReply(r, rep) ==
    /\ pc[r] = "await"
    /\ kind[r] = "chat"
    /\ reply' = [reply EXCEPT ![r] = rep]
    /\ response' = [response EXCEPT ![r] =
                       chat_endpoint_except(generate_response_finish(rep))]
    /\ pc' = [pc EXCEPT ![r] = "done"]
    /\ UNCHANGED <<api_key, kind, messages, files, extracted, file_contents,
                   prompt, calls, tmpfiles, xcall>>

\* POST /api/chat/upload reaches upload_files with the files fs
\* (lines 413-437, 451-460)
UploadStart(r, fs) ==
    /\ pc[r] = "idle"
    /\ kind' = [kind EXCEPT ![r] = "upload"]
    /\ files' = [files EXCEPT ![r] = fs]
    /\ IF fs = <<>>
       THEN /\ response' = [response EXCEPT ![r] =
                   upload_files_except(
                       Raised(Exc("HTTPException", 400, "validation")))]
            /\ pc' = [pc EXCEPT ![r] = "done"]
       ELSE /\ pc' = [pc EXCEPT ![r] = "extract"]
            /\ UNCHANGED response
    /\ UNCHANGED <<api_key, messages, extracted, file_contents, prompt, calls,
                   reply, tmpfiles, xcall>>

\* One iteration of the loop of process_message_with_files (lines 167-173):
\* the call of extract_text_from_file on the next file, whose bytes and
\* behaviour are those of f, in the file system state env.
UploadExtract(r, f, env) ==
    /\ pc[r] = "extract"
    /\ LET i == Len(extracted[r]) + 1
           res == extract_text_from_file(f, env)
           step == LoopStep(file_contents[r], f.filename, res)
       IN  /\ f.filename = files[r][i]
           /\ extracted' = [extracted EXCEPT ![r] = Append(@, res)]
           /\ file_contents' = [file_contents EXCEPT ![r] = step.file_contents]
           /\ tmpfiles' = IF res.tmp = "left"
                          THEN tmpfiles \cup {<<r, i>>} ELSE tmpfiles
           /\ IF step.raised
              THEN /\ response' = [response EXCEPT ![r] =
                          upload_files_except(upload_files_proc_error(
                              Raised(Exc("Exception", 0, "extraction"))))]
                   /\ pc' = [pc EXCEPT ![r] = "done"]
              ELSE /\ pc' = [pc EXCEPT ![r] =
                              IF i = Len(files[r]) THEN "send" ELSE "extract"]
                   /\ UNCHANGED response
    /\ UNCHANGED <<api_key, kind, messages, files, prompt, calls, reply, xcall>>

\* The prompt is assembled and client.post is issued (lines 176-227)
UploadSend(r) ==
    /\ pc[r] = "send"
    /\ prompt' = [prompt EXCEPT ![r] = Join(file_contents[r])]
    /\ calls' = [calls EXCEPT ![r] = @ + 1]
    /\ pc' = [pc EXCEPT ![r] = "await"]
    /\ UNCHANGED <<api_key, kind, messages, files, extracted, file_contents,
                   reply, response, tmpfiles, xcall>>

\* client.post of process_message_with_files completes (lines 229-251,
\* 437-460)
UploadReply(r, rep) ==
    /\ pc[r] = "await"
    /\ kind[r] = "upload"
    /\ reply' = [reply EXCEPT ![r] = rep]
    /\ response' = [response EXCEPT ![r] =
           upload_files_except(upload_files_proc_error(process_reply(rep)))]
    /\ pc' = [pc EXCEPT ![r] = "done"]
    /\ UNCHANGED <<api_key, kind, messages, files, extracted, file_contents,
                   prompt, calls, tmpfiles, xcall>>

Next ==
    \/ \E r \in Reqs, ms \in MessageLists : ChatStart(r, ms)
    \/ \E r \in Reqs, rep \in Replies : ChatReply(r, rep)
    \/ \E r \in Reqs, fs \in FileLists : UploadStart(r, fs)
    \/ \E r \in Reqs, f \in Files, env \in Envs : UploadExtract(r, f, env)
    \/ \E r \in Reqs : UploadSend(r)
    \/ \E r \in Reqs, rep \in Replies : UploadReply(r, rep)

Spec == Init /\ [][Next]_vars

(***************************************************************************)
(* One call of extract_text_from_file over every file and file system      *)
(***************************************************************************)
InitExtract ==
    /\ InitRequests
    /\ xcall \in [file : Files, env : Envs, state : {"pending"},
                  result : {NoResult}]

ExtractCall ==
    /\ xcall.state = "pending"
    /\ xcall' = [xcall EXCEPT !.state = "returned",
                              !.result = extract_text_from_file(xcall.file,
                                                                xcall.env)]
    /\ UNCHANGED reqvars

NextExtract == ExtractCall

SpecExtract == InitExtract /\ [][NextExtract]_vars

(***************************************************************************)
(* Concurrent requests: the handlers are coroutines of one event loop, so  *)
(* the steps of different requests interleave at every await.              *)
(***************************************************************************)
NumConc == 2

ConcReqs == 1..NumConc

ConcMessageLists ==
    { <<>>,
      <<[role |-> "user", content |-> <<"hello">>]>>,
      <<[role |-> "user", content |-> <<"Who", "Built", "you", "?">>]>> }

ConcFileLists == { <<>>, <<<<"README">>>>, <<<<"README">>, <<"README">>>> }

ConcFiles ==
    [filename : {<<"README">>}, content : {"valid", "empty"},
     readFails : {FALSE}, seekFails : BOOLEAN]

ConcEnvs == {[tmp |-> "ok", unlinkFails |-> FALSE]}

ConcReplies ==
    { [transport |-> "error", http_ok |-> FALSE, body |-> [t |-> "invalid"]],
      [transport |-> "ok", http_ok |-> FALSE, body |-> [t |-> "invalid"]],
      [transport |-> "ok", http_ok |-> TRUE,
       body |-> [t |-> "object",
                 v |-> [choices |-> <<Choice>>,
                        usage |-> [total_tokens |-> 42]]]],
      [transport |-> "ok", http_ok |-> TRUE,
       body |-> [t |-> "object", v |-> [choices |-> <<[index |-> 0]>>]]] }

InitConc ==
    /\ api_key \in BOOLEAN
    /\ pc = [r \in ConcReqs |-> "idle"]
    /\ kind = [r \in ConcReqs |-> "none"]
    /\ messages = [r \in ConcReqs |-> <<>>]
    /\ files = [r \in ConcReqs |-> <<>>]
    /\ extracted = [r \in ConcReqs |-> <<>>]
    /\ file_contents = [r \in ConcReqs |-> <<>>]
    /\ prompt = [r \in ConcReqs |-> <<>>]
    /\ calls = [r \in ConcReqs |-> 0]
    /\ reply = [r \in ConcReqs |-> NoReply]
    /\ response = [r \in ConcReqs |-> NoResponse]
    /\ tmpfiles = {}
    /\ xcall = XIdle

NextConc ==
    \/ \E r \in ConcReqs, ms \in ConcMessageLists : ChatStart(r, ms)
    \/ \E r \in ConcReqs, rep \in ConcReplies : ChatReply(r, rep)
    \/ \E r \in ConcReqs, fs \in ConcFileLists : UploadStart(r, fs)
    \/ \E r \in ConcReqs, f \in ConcFiles, env \in ConcEnvs :
          UploadExtract(r, f, env)
    \/ \E r \in ConcReqs : UploadSend(r)
    \/ \E r \in ConcReqs, rep \in ConcReplies : UploadReply(r, rep)

SpecConc == InitConc /\ [][NextConc]_vars

(***************************************************************************)
(* Properties                                                              *)
(***************************************************************************)
Done(r) == pc[r] = "done"

\* C1: a POST /api/chat request with an empty message list ends with status
\* 400, and no provider call is made for it.
C1_EmptyMessagesAnswer400 ==
    \A r \in Reqs :
        (Done(r) /\ kind[r] = "chat" /\ messages[r] = <<>>)
            => (response[r].status = 400 /\ calls[r] = 0)

\* C2: extract_text_from_file is total: whatever the file and whatever
\* fails (read, decoder, temp-file write, final seek), the call returns a
\* string and raises nothing.
C2_ExtractNeverRaises ==
    xcall.state = "returned" => xcall.result.outcome = "return"

\* C3: for a .docx/.doc upload, the temporary file the call created does not
\* exist once the call is over, on every exit path.
C3_TempFileGoneAfterCall ==
    (/\ xcall.state = "returned"
     /\ FileExtension(xcall.file.filename) \in {<<"docx">>, <<"doc">>})
        => xcall.result.tmp # "left"

\* The most recent user-role message of ms asks who built or created the
\* assistant.
LastUserMessageAsks(ms) ==
    \E i \in 1..Len(ms) :
        /\ ms[i].role = "user"
        /\ \A j \in (i + 1)..Len(ms) : ms[j].role # "user"
        /\ \/ Contains(lower(ms[i].content), <<"who", "built", "you">>)
           \/ Contains(lower(ms[i].content), <<"who", "created", "you">>)

\* C4: for a chat request with a non-empty message list, the fixed
\* attribution is answered without a provider call if the most recent
\* user-role message asks who built or created the assistant, and only then.
C4_ShortCircuitOnLastUserMessage ==
    \A r \in Reqs :
        (Done(r) /\ kind[r] = "chat" /\ messages[r] # <<>>)
            => /\ LastUserMessageAsks(messages[r])
                    => /\ response[r].body = "attribution"
                       /\ response[r].status = 200
                       /\ calls[r] = 0
               /\ response[r].body = "attribution"
                    => LastUserMessageAsks(messages[r])

\* C5: without a provider credential, every finished request that needs the
\* provider (a chat that is not short-circuited, an upload with at least one
\* file) failed with a configuration error, status 500.
C5_NoCredentialIsConfigError ==
    \A r \in Reqs :
        (/\ ~api_key
         /\ Done(r)
         /\ \/ /\ kind[r] = "chat"
               /\ messages[r] # <<>>
               /\ response[r].body # "attribution"
            \/ kind[r] = "upload" /\ files[r] # <<>>)
            => (response[r].status = 500 /\ response[r].detail = "config")

\* A body that parses as JSON and is not an object holding a non-empty
\* `choices` whose first element has message.content.
UnexpectedShape(body) ==
    /\ body.t # "invalid"
    /\ ~ /\ body.t = "object"
         /\ "choices" \in DOMAIN body.v
         /\ Len(body.v.choices) > 0
         /\ "message" \in DOMAIN body.v.choices[1]
         /\ "content" \in DOMAIN body.v.choices[1].message

\* C6: when the provider answers an upload's call with a success status and
\* a JSON body of unexpected shape, the request answers the fallback text
\* with status 200.
C6_UnexpectedShapeFallsBack ==
    \A r \in Reqs :
        (/\ Done(r)
         /\ kind[r] = "upload"
         /\ reply[r].transport = "ok"
         /\ reply[r].http_ok
         /\ UnexpectedShape(reply[r].body))
            => (response[r].status = 200 /\ response[r].body = "fallback")

\* C7: once an upload with N >= 1 files has issued its provider call, the
\* prompt holds exactly N fragments, separated, in the order of the files,
\* fragment i carrying file i's name and file i's extraction outcome, be it
\* content, a diagnostic or an exception.
C7_FragmentsFollowFileOrder ==
    \A r \in Reqs :
        (kind[r] = "upload" /\ calls[r] >= 1)
            => LET n == Len(files[r])
               IN  /\ n >= 1
                   /\ Len(extracted[r]) = n
                   /\ Len(prompt[r]) = 2 * n - 1
                   /\ \A i \in 1..n :
                        /\ prompt[r][2 * i - 1].filename = files[r][i]
                        /\ prompt[r][2 * i - 1].text = extracted[r][i].value
                        /\ prompt[r][2 * i - 1].head =
                              IF extracted[r][i].outcome = "return"
                              THEN "File" ELSE "ErrorProcessingFile"
                   /\ \A i \in 1..(n - 1) : prompt[r][2 * i] = Separator

\* An upload whose first file's extraction raised and whose second file
\* yielded content has sent its prompt.
C7_Witness ==
    \E r \in Reqs :
        /\ kind[r] = "upload"
        /\ calls[r] = 1
        /\ Len(files[r]) = 2
        /\ files[r][1] # files[r][2]
        /\ extracted[r][1].outcome = "raise"
        /\ extracted[r][2].outcome = "return"
        /\ extracted[r][2].value.kind \in {"PDFContent", "DocumentContent"}

\* The replies process_message_with_files answers without raising.
AnsweredReply(rep) ==
    /\ rep.transport = "ok"
    /\ rep.http_ok
    /\ \/ rep.body.t = "list"
       \/ /\ rep.body.t = "object"
          /\ \/ "choices" \notin DOMAIN rep.body.v
             \/ Len(rep.body.v.choices) = 0
             \/ /\ "message" \in DOMAIN rep.body.v.choices[1]
                /\ "content" \in DOMAIN rep.body.v.choices[1].message

\* C8: an upload with at least one file never ends before its provider
\* call: when it is done, every file was extracted, exactly one call was
\* issued, and the status is 200 or 500 according to the provider's reply
\* alone, whatever the extractions did.
C8_ExtractionNeverAborts ==
    \A r \in Reqs :
        (Done(r) /\ kind[r] = "upload" /\ files[r] # <<>>)
            => /\ Len(extracted[r]) = Len(files[r])
               /\ calls[r] = 1
               /\ reply[r] \in Replies
               /\ response[r].status =
                     IF AnsweredReply(reply[r]) THEN 200 ELSE 500

\* An upload in which an extraction raised and another returned a
\* diagnostic has ended with status 200.
C8_Witness ==
    \E r \in Reqs :
        /\ Done(r)
        /\ kind[r] = "upload"
        /\ \E i \in 1..Len(extracted[r]) : extracted[r][i].outcome = "raise"
        /\ \E i \in 1..Len(extracted[r]) :
              /\ extracted[r][i].outcome = "return"
              /\ extracted[r][i].value.kind
                    \in {"FailedToRead", "ErrorProcessing", "EmptyFile"}
        /\ response[r].status = 200

\* C9: an upload that reaches upload_files with no file ends with status
\* 400, with no extraction and no provider call.
C9_NoFilesAnswer400 ==
    \A r \in Reqs :
        (kind[r] = "upload" /\ files[r] = <<>>)
            => /\ Done(r)
               /\ response[r].status = 400
               /\ calls[r] = 0
               /\ extracted[r] = <<>>
               /\ file_contents[r] = <<>>

\* An upload without files has been answered.
C9_Witness ==
    \E r \in Reqs :
        /\ Done(r)
        /\ kind[r] = "upload"
        /\ files[r] = <<>>
        /\ response[r].detail = "validation"

\* The result the dispatch table gives for a file that was read.
ExpectedString(file) ==
    LET ext == FileExtension(file.filename)
        k == IF file.content = "empty" THEN "EmptyFile"
             ELSE IF ext = <<"pdf">>
                  THEN IF file.content = "valid"
                       THEN "PDFContent" ELSE "CouldNotExtractPDF"
             ELSE IF ext \in {<<"docx">>, <<"doc">>}
                  THEN IF file.content = "valid"
                       THEN "DocumentContent" ELSE "CouldNotExtractWord"
             ELSE IF ext \in {<<"csv">>, <<"xlsx">>, <<"xls">>}
                  THEN IF file.content = "valid"
                       THEN "DataFrom" ELSE "CouldNotExtractSheet"
             ELSE IF ext = <<"txt">> THEN "TextContent"
             ELSE "Unsupported"
    IN  Str(k, file.filename, IF k = "Unsupported" THEN ext ELSE <<>>)

\* C10: when reading the file succeeds, the call's result is decided by the
\* emptiness of the content, the lower-cased suffix and the decoder's
\* outcome: the Empty-file text, the format's own content prefix or own
\* failure diagnostic, or the unsupported-format text naming the suffix.
C10_ResultDecidedByDispatch ==
    (xcall.state = "returned" /\ ~xcall.file.readFails)
        => /\ xcall.result.outcome = "return"
           /\ xcall.result.value = ExpectedString(xcall.file)

\* C11: every request issues at most one provider call over its whole
\* lifetime, whatever the other requests do meanwhile: its count of calls
\* never exceeds one and is never taken back, and a chat or upload request
\* that ended with status 200 without the short-circuit issued exactly one.
C11_OneProviderCallPerRequest ==
    /\ [](\A r \in ConcReqs :
            /\ calls[r] <= 1
            /\ (pc[r] = "idle" => calls[r] = 0)
            /\ (/\ Done(r)
                /\ response[r].status = 200
                /\ response[r].body # "attribution") => calls[r] = 1)
    /\ [][\A r \in ConcReqs : calls'[r] >= calls[r]]_vars

\* A chat request has ended with the provider's answer while an upload,
\* started before the chat ended, still awaits the reply to its own call.
C11_Witness ==
    \E r, q \in ConcReqs :
        /\ r # q
        /\ kind[r] = "chat"
        /\ Done(r)
        /\ response[r].status = 200
        /\ response[r].body = "provider_content"
        /\ calls[r] = 1
        /\ kind[q] = "upload"
        /\ pc[q] = "await"
        /\ calls[q] = 1

====
